---- MODULE Spec2Model ----
(***************************************************************************)
(* The SWR (stale-while-revalidate) plugin of async-plugin-request, first  *)
(* createSWRPlugin of src/src/swr.ts (lines 81-197), together with the     *)
(* part of the useAsync engine it talks to (isExecuting, isFinished,       *)
(* payload, data, rawData, the success hook, cancel and scope disposal).   *)
(*                                                                         *)
(* A promise is identified with the underlying operation that produced it: *)
(* the index of its record in ops.  The value an operation resolves with   *)
(* is its index, so that data written to a subscriber names its origin.    *)
(***************************************************************************)
EXTENDS Integers, Sequences, FiniteSets, TLC

\* ------------------------------------------------------------ bounds
MaxOps == 2          \* underlying operations started in one behaviour
MaxTime == 3         \* Date.now() ranges over 0..MaxTime
CacheTimeT == 2      \* the positive cacheTime the subscribers configure
MaxOpsKeyed == 3     \* operations started when both subscribers key by arguments
MaxCtx == 3          \* execution contexts handed to the axios plugin's task

\* ------------------------------------------------------------ constants
EXPIRED_FLAG == -1   \* the sentinel of lastUpdateTime
None == "none"       \* null: no key, no call
Subs == {"A", "B"}
Args == {0, 1, 2}    \* a payload; 0 is the empty argument list
StaticKey == "k1"
Keys == {"k1", "k2"}

\* The user's key function and cacheTime function of the payload.
KeyFn(a) == IF a = 2 THEN "k2" ELSE "k1"
CacheTimeFn(a) == IF a = 0 THEN 0 ELSE CacheTimeT

\* options.swr of a subscriber: key is absent, a literal or a function;
\* cacheTime is a literal or a function.
Static == [key |-> "static", cacheTime |-> "fn"]
ByArgs == [key |-> "fn", cacheTime |-> "fn"]
NoKey == [key |-> "none", cacheTime |-> "static"]

\* the configurations of the two subscribers that are explored
Configs ==
  { [A |-> Static, B |-> ByArgs],
    [A |-> ByArgs, B |-> ByArgs],
    [A |-> Static, B |-> NoKey] }

\* two subscribers that key by their arguments with a fixed cacheTime, explored
\* with one more operation and without disposal and time
Keyed == [key |-> "fn", cacheTime |-> "static"]
ConfigsKeyed == { [A |-> Keyed, B |-> Keyed] }

VARIABLES
  options,      \* per subscriber: its options.swr
  cacheMap,     \* key -> CacheModel, a partial function
  isExecuting,  \* shell.isExecuting.value
  isFinished,   \* shell.isFinished.value
  payload,      \* shell.payload.value
  data,         \* shell.data.value (0: undefined)
  rawData,      \* shell.rawData.value
  ops,          \* the underlying operations started so far (rawTask calls)
  call,         \* per subscriber: the execution awaiting a promise, or NoCall
  microQ,       \* continuations of awaits that are ready to run, in order
  disposed,     \* subscribers whose scope has been disposed
  now,          \* Date.now()
  tick,         \* history: the execute calls of the current synchronous tick
  executingCtx, \* axios.ts: the ambient context, 0 is null
  running,      \* axios.ts: the wrapped tasks on the synchronous call stack
  created,      \* axios.ts: the number of execution contexts created so far
  linked        \* history: the requests issued, by whom and linked to what

\* the state of the axios plugin
axiosVars == <<executingCtx, running, created, linked>>

vars == <<options, cacheMap, isExecuting, isFinished, payload, data, rawData,
          ops, call, microQ, disposed, now, tick, axiosVars>>

NoCall == [op |-> 0, own |-> FALSE]
NoTick == [key |-> None, calls |-> 0, invoked |-> 0, proms |-> {}]

\* ------------------------------------------------------------ helpers
\* nice-fns toValue: a function is applied to the arguments, a value is itself
toValueKey(opt, a) == IF opt.key = "fn" THEN KeyFn(a) ELSE StaticKey
toValueCacheTime(opt, a) ==
  IF opt.cacheTime = "fn" THEN CacheTimeFn(a) ELSE CacheTimeT

initCache == [lastUpdateTime |-> EXPIRED_FLAG, promise |-> 0, contexts |-> <<>>]

\* mutant: expiry resets the timestamp and keeps the promise
expireCache_KeepPromise(cache) ==
  [cache EXCEPT !.lastUpdateTime = EXPIRED_FLAG]

expireCache(cache) ==
  [cache EXCEPT !.lastUpdateTime = EXPIRED_FLAG, !.promise = 0]

\* mutant: the key is resolved whatever the execution record of the subscriber
getKey_NoRecordGuard(opt, a, finished, executing) ==
  IF opt.key = "none" THEN None ELSE toValueKey(opt, a)

getKey(opt, a, finished, executing) ==
  IF (~finished /\ ~executing) \/ opt.key = "none"
  THEN None
  ELSE toValueKey(opt, a)

\* The key of subscriber s for payload a in the current state.
KeyOf(s, a) == getKey(options[s], a, isFinished[s], isExecuting[s])

\* cache.contexts without the subscriber s itself, optionally filtered
filterContexts(cache, s) == SelectSeq(cache.contexts, LAMBDA x : x # s)

\* Map.set(key, cache)
put(cm, key, cache) ==
  [k \in DOMAIN cm \cup {key} |-> IF k = key THEN cache ELSE cm[k]]

\* history: the promise o is taken out of its entry while still unsettled
Drop(os, o) ==
  IF o # 0 /\ os[o].status = "pending"
  THEN [os EXCEPT ![o].dropped = TRUE]
  ELSE os

\* rawTask(ctx): starts the underlying operation of subscriber s
rawTask(s, key, cached) ==
  [key |-> key, by |-> s, cached |-> cached, status |-> "pending",
   dropped |-> FALSE, orphan |-> FALSE, waiters |-> <<s>>]

Quiescent == microQ = <<>>

\* the number of operations a behaviour may start
OpsCap == IF options \in ConfigsKeyed THEN MaxOpsKeyed ELSE MaxOps

\* mutant: no catch handler, a rejection leaves the entry as it is
catchHandler_Missing(cm, os, o) == cm

\* cache.promise.catch(() => expireCache(cache)) for the operation o: cache is
\* the entry object the task captured, which a disposal may have removed from
\* the map since (orphan).
catchHandler(cm, os, o) ==
  IF os[o].cached /\ ~os[o].orphan /\ os[o].key \in DOMAIN cm
  THEN put(cm, os[o].key, expireCache(cm[os[o].key]))
  ELSE cm

catchDrop(cm, os, o) ==
  IF os[o].cached /\ ~os[o].orphan /\ os[o].key \in DOMAIN cm
     /\ cm[os[o].key].promise # o
  THEN Drop(os, cm[os[o].key].promise)
  ELSE os

\* ------------------------------------------------------------ pluginCtx.task
\* The wrapped task, run by the engine for execute(a) of subscriber s on the
\* store cm and the operations os (isExecuting is already true); tk is the
\* record of the tick so far, which a markExpired ends.
taskKey(s, a) == getKey(options[s], a, isFinished[s], TRUE)

\* the validity check of the task: the entry is older than cacheTimeValue
isStale(cache, cacheTimeValue) ==
  /\ cache.lastUpdateTime # EXPIRED_FLAG
  /\ now - cache.lastUpdateTime > cacheTimeValue

\* does the call go to rawTask directly, with no caching?
passThrough(s, a) ==
  taskKey(s, a) = None \/ toValueCacheTime(options[s], a) <= 0

\* mutant: the entry is created anew on every call instead of being looked up
taskLookup_AlwaysInit(cm, s, a) == initCache

\* the entry of the key as the task finds or creates it
taskLookup(cm, s, a) ==
  IF taskKey(s, a) \in DOMAIN cm THEN cm[taskKey(s, a)] ELSE initCache

\* mutant: the caller is appended to the subscribers without being filtered out
taskCache_NoFilter(cm, s, a) ==
  LET c0 == taskLookup(cm, s, a)
      c1 == IF isStale(c0, toValueCacheTime(options[s], a))
            THEN expireCache(c0) ELSE c0
  IN [c1 EXCEPT !.contexts = Append(c1.contexts, s)]

\* the entry after the validity check and the registration of s
taskCache(cm, s, a) ==
  LET c0 == taskLookup(cm, s, a)
      c1 == IF isStale(c0, toValueCacheTime(options[s], a))
            THEN expireCache(c0) ELSE c0
  IN [c1 EXCEPT !.contexts = Append(filterContexts(c1, s), s)]

\* mutant: a promise is shared only once the entry is populated, so a call that
\* arrives while the first operation is in flight starts another one
taskShared_PopulatedOnly(cm, s, a) ==
  IF passThrough(s, a) \/ taskCache(cm, s, a).lastUpdateTime = EXPIRED_FLAG
  THEN 0
  ELSE taskCache(cm, s, a).promise

\* the promise the task returns without running rawTask, 0 if it runs rawTask
taskShared(cm, s, a) ==
  IF passThrough(s, a) THEN 0 ELSE taskCache(cm, s, a).promise

\* does the task invoke the underlying operation?
taskStarts(cm, s, a) == taskShared(cm, s, a) = 0

Task(cm, os, tk, s, a) ==
  LET key == taskKey(s, a)
      c0 == taskLookup(cm, s, a)
      stale == isStale(c0, toValueCacheTime(options[s], a))
      os1 == IF ~passThrough(s, a) /\ stale THEN Drop(os, c0.promise) ELSE os
      fresh == \/ key \notin DOMAIN cm
               \/ c0.promise = 0 /\ (c0.lastUpdateTime = EXPIRED_FLAG \/ stale)
      new == Len(os) + 1
      p == IF taskStarts(cm, s, a) THEN new ELSE taskShared(cm, s, a)
      inv == IF taskStarts(cm, s, a) THEN 1 ELSE 0
  IN /\ taskStarts(cm, s, a) => Len(os) < OpsCap
     /\ cacheMap' =
          IF passThrough(s, a) THEN cm
          ELSE put(cm, key, [taskCache(cm, s, a) EXCEPT !.promise = p])
     /\ ops' =
          IF taskStarts(cm, s, a)
          THEN Append(os1, rawTask(s, key, ~passThrough(s, a)))
          ELSE IF os1[p].status = "pending"
               THEN [os1 EXCEPT ![p].waiters = Append(@, s)]
               ELSE os1
     /\ microQ' =
          IF ~taskStarts(cm, s, a) /\ os1[p].status # "pending"
          THEN Append(microQ, [sub |-> s, op |-> p])
          ELSE microQ
     /\ call' = [call EXCEPT ![s] = [op |-> p, own |-> taskStarts(cm, s, a)]]
     /\ tick' =
          IF passThrough(s, a) THEN NoTick
          ELSE IF tk.key = key
               THEN [tk EXCEPT !.calls = @ + 1, !.invoked = @ + inv,
                                 !.proms = @ \cup {p}]
               ELSE IF fresh
                    THEN [key |-> key, calls |-> 1, invoked |-> inv,
                          proms |-> {p}]
                    ELSE NoTick

\* ------------------------------------------------------------ actions
\* shell.execute(a): the engine records the payload, raises isExecuting and
\* runs the wrapped task.
Execute(s, a) ==
  /\ Quiescent
  /\ s \notin disposed
  /\ ~isExecuting[s]
  /\ isExecuting' = [isExecuting EXCEPT ![s] = TRUE]
  /\ payload' = [payload EXCEPT ![s] = a]
  /\ Task(cacheMap, ops, tick, s, a)
  /\ UNCHANGED <<axiosVars, options, isFinished, data, rawData, disposed, now>>

\* mutant: markExpired expires the entries of all keys
markExpiredMap_AllKeys(s, a) ==
  [k \in DOMAIN cacheMap |-> expireCache(cacheMap[k])]

\* the store and the operations after shell.markExpired(...args) of s
markExpiredMap(s, a) ==
  LET p == IF a # 0 THEN a ELSE payload[s]
      key == KeyOf(s, p)
  IN IF key # None /\ key \in DOMAIN cacheMap
     THEN put(cacheMap, key, expireCache(cacheMap[key]))
     ELSE cacheMap

markExpiredOps(s, a) ==
  LET p == IF a # 0 THEN a ELSE payload[s]
      key == KeyOf(s, p)
  IN IF key # None /\ key \in DOMAIN cacheMap
     THEN Drop(ops, cacheMap[key].promise)
     ELSE ops

\* the key the configuration of s gives for the payload, whatever its state
RawKey(s, p) ==
  IF options[s].key = "none" THEN None ELSE toValueKey(options[s], p)

MarkExpired(s, a) ==
  /\ Quiescent
  /\ s \notin disposed
  /\ cacheMap' = markExpiredMap(s, a)
  /\ ops' = markExpiredOps(s, a)
  /\ tick' = NoTick
  /\ UNCHANGED <<axiosVars, options, isExecuting, isFinished, payload, data, rawData,
                 call, microQ, disposed, now>>

\* shell.revalidate(...args): markExpired(...payload), then execute(...payload)
Revalidate(s, a) ==
  LET p == IF a # 0 THEN a ELSE payload[s]
  IN /\ Quiescent
     /\ s \notin disposed
     /\ ~isExecuting[s]
     /\ isExecuting' = [isExecuting EXCEPT ![s] = TRUE]
     /\ payload' = [payload EXCEPT ![s] = p]
     /\ Task(markExpiredMap(s, p), markExpiredOps(s, p), NoTick, s, p)
        /\ UNCHANGED <<axiosVars, options, isFinished, data, rawData, disposed, now>>

\* The underlying operation o fulfils: the awaiting executions continue in the
\* order in which they started to await.
Resolve(o) ==
  /\ Quiescent
  /\ ops[o].status = "pending"
  /\ ops' = [ops EXCEPT ![o].status = "ok", ![o].waiters = <<>>]
  /\ microQ' = [i \in 1..Len(ops[o].waiters) |->
                  [sub |-> ops[o].waiters[i], op |-> o]]
  /\ tick' = NoTick
  /\ UNCHANGED <<axiosVars, options, cacheMap, isExecuting, isFinished, payload, data,
                 rawData, call, disposed, now>>

\* The underlying operation o rejects: the catch handler of the task runs
\* first, then the awaiting executions continue.
Reject(o) ==
  /\ Quiescent
  /\ ops[o].status = "pending"
  /\ cacheMap' = catchHandler(cacheMap, ops, o)
  /\ ops' = [catchDrop(cacheMap, ops, o) EXCEPT
               ![o].status = "err", ![o].waiters = <<>>]
  /\ microQ' = [i \in 1..Len(ops[o].waiters) |->
                  [sub |-> ops[o].waiters[i], op |-> o]]
  /\ tick' = NoTick
  /\ UNCHANGED <<axiosVars, options, isExecuting, isFinished, payload, data, rawData,
                 call, disposed, now>>

Range(q) == {q[i] : i \in 1..Len(q)}

\* ------------------------------------------------------------ success hook
\* hooks.hook('success', ...) of subscriber s for its execution of payload p
successKey(s, p) == getKey(options[s], p, isFinished[s], isExecuting[s])

\* mutant: the hook populates the entry and writes to no sibling
successReceivers_Nobody(s, p) == {}

\* does the hook populate the entry (first success of an expired entry)?
successPopulates(s, p) ==
  LET key == successKey(s, p)
  IN /\ key # None
     /\ key \in DOMAIN cacheMap
     /\ cacheMap[key].lastUpdateTime = EXPIRED_FLAG

\* mutant: the hook writes to every other subscriber registered on the entry
successReceivers_Registered(s, p) ==
  IF successPopulates(s, p)
  THEN Range(filterContexts(cacheMap[successKey(s, p)], s))
  ELSE {}

\* the sibling subscribers whose data the hook writes
successReceivers(s, p) ==
  IF successPopulates(s, p)
  THEN {x \in Range(filterContexts(cacheMap[successKey(s, p)], s)) :
          /\ isFinished[x] /\ ~isExecuting[x]
          /\ KeyOf(x, payload[x]) = successKey(s, p)}
  ELSE {}

successMap(s, p) ==
  IF successPopulates(s, p)
  THEN put(cacheMap, successKey(s, p),
           [cacheMap[successKey(s, p)] EXCEPT !.lastUpdateTime = now])
  ELSE cacheMap

\* The continuation of the execution of head.sub after its awaited promise
\* settled: on success the engine stores the result and fires the success hook
\* while isExecuting is still true; then the execution ends.
RunMicro ==
  /\ microQ # <<>>
  /\ LET s == Head(microQ).sub
         o == Head(microQ).op
     IN /\ microQ' = Tail(microQ)
        /\ IF ops[o].status = "ok"
           THEN /\ data' = [x \in Subs |->
                             IF x = s \/ x \in successReceivers(s, payload[s])
                             THEN o ELSE data[x]]
                /\ rawData' = [x \in Subs |->
                             IF x = s \/ x \in successReceivers(s, payload[s])
                             THEN o ELSE rawData[x]]
                /\ cacheMap' = successMap(s, payload[s])
           ELSE UNCHANGED <<data, rawData, cacheMap>>
        /\ isExecuting' = [isExecuting EXCEPT ![s] = FALSE]
        /\ isFinished' = [isFinished EXCEPT ![s] = TRUE]
        /\ call' = [call EXCEPT ![s] = NoCall]
  /\ tick' = NoTick
  /\ UNCHANGED <<axiosVars, options, payload, ops, disposed, now>>

\* shell.cancel() of the running execution of s: its result is discarded and
\* ctx.signal aborts.  A request the task issued synchronously carries that
\* signal (axios plugin), so the operation this execution started rejects
\* (abort); an operation that carries no signal goes on.
Cancel(s) ==
  /\ Quiescent
  /\ s \notin disposed
  /\ isExecuting[s]
  /\ call[s] # NoCall
  /\ \E abort \in BOOLEAN :
       LET o == call[s].op
           others == SelectSeq(ops[o].waiters, LAMBDA x : x # s)
       IN IF abort /\ call[s].own /\ ops[o].status = "pending"
          THEN /\ cacheMap' = catchHandler(cacheMap, ops, o)
               /\ ops' = [catchDrop(cacheMap, ops, o) EXCEPT
                            ![o].status = "aborted", ![o].waiters = <<>>]
               /\ microQ' = [i \in 1..Len(others) |->
                               [sub |-> others[i], op |-> o]]
          ELSE /\ ops' = [ops EXCEPT ![o].waiters = others]
               /\ UNCHANGED <<cacheMap, microQ>>
  /\ isExecuting' = [isExecuting EXCEPT ![s] = FALSE]
  /\ isFinished' = [isFinished EXCEPT ![s] = TRUE]
  /\ call' = [call EXCEPT ![s] = NoCall]
  /\ tick' = NoTick
  /\ UNCHANGED <<axiosVars, options, payload, data, rawData, disposed, now>>

\* mutant: the disposal prunes the subscriber and removes no entry
keptKeys_All(s) == DOMAIN cacheMap

\* the keys that keep an entry when the scope of s is disposed
keptKeys(s) ==
  {k \in DOMAIN cacheMap : filterContexts(cacheMap[k], s) # <<>>}

\* tryOnScopeDispose callback of subscriber s.  A disposed subscriber makes no
\* further calls; an execution it has in flight still settles.
Dispose(s) ==
  /\ Quiescent
  /\ s \notin disposed
  /\ disposed' = disposed \cup {s}
  /\ cacheMap' = [k \in keptKeys(s) |->
                    [cacheMap[k] EXCEPT !.contexts = filterContexts(cacheMap[k], s)]]
  /\ ops' = [i \in 1..Len(ops) |->
               IF /\ ops[i].cached /\ ~ops[i].orphan
                  /\ ops[i].key \in DOMAIN cacheMap \ keptKeys(s)
               THEN [ops[i] EXCEPT
                       !.orphan = TRUE,
                       !.dropped = @ \/ (/\ ops[i].status = "pending"
                                         /\ cacheMap[ops[i].key].promise = i)]
               ELSE ops[i]]
  /\ tick' = NoTick
  /\ UNCHANGED <<axiosVars, options, isExecuting, isFinished, payload, data, rawData,
                 call, microQ, now>>

\* Date.now() advances between two tasks of the event loop
Tick ==
  /\ Quiescent
  /\ now < MaxTime
  /\ now' = now + 1
  /\ tick' = NoTick
  /\ UNCHANGED <<axiosVars, options, cacheMap, isExecuting, isFinished, payload, data,
                 rawData, ops, call, microQ, disposed>>

\* ------------------------------------------------------------ specification
Init ==
  /\ options \in Configs
  /\ cacheMap = << >>
  /\ isExecuting = [s \in Subs |-> FALSE]
  /\ isFinished = [s \in Subs |-> FALSE]
  /\ payload = [s \in Subs |-> 0]
  /\ data = [s \in Subs |-> 0]
  /\ rawData = [s \in Subs |-> 0]
  /\ ops = << >>
  /\ call = [s \in Subs |-> NoCall]
  /\ microQ = << >>
  /\ disposed = {}
  /\ now = 0
  /\ tick = NoTick
  /\ executingCtx = 0
  /\ running = << >>
  /\ created = 0
  /\ linked = {}

\* execute, markExpired, revalidate, settlement, disposal and time
Next ==
  \/ \E s \in Subs, a \in Args : Execute(s, a)
  \/ \E s \in Subs, a \in Args : MarkExpired(s, a)
  \/ \E s \in Subs, a \in Args : Revalidate(s, a)
  \/ \E o \in 1..Len(ops) : Resolve(o)
  \/ \E o \in 1..Len(ops) : Reject(o)
  \/ RunMicro
  \/ \E s \in Subs : Dispose(s)
  \/ Tick

Spec == Init /\ [][Next]_vars

\* the same subscribers with cancellation of running executions
NextCancel ==
  \/ \E s \in Subs, a \in Args : Execute(s, a)
  \/ \E s \in Subs, a \in Args : MarkExpired(s, a)
  \/ \E o \in 1..Len(ops) : Resolve(o)
  \/ \E o \in 1..Len(ops) : Reject(o)
  \/ RunMicro
  \/ \E s \in Subs : Cancel(s)

SpecCancel == Init /\ [][NextCancel]_vars

\* two subscribers keyed by arguments: execute, markExpired and settlement
InitKeyed ==
  /\ options \in ConfigsKeyed
  /\ cacheMap = << >>
  /\ isExecuting = [s \in Subs |-> FALSE]
  /\ isFinished = [s \in Subs |-> FALSE]
  /\ payload = [s \in Subs |-> 0]
  /\ data = [s \in Subs |-> 0]
  /\ rawData = [s \in Subs |-> 0]
  /\ ops = << >>
  /\ call = [s \in Subs |-> NoCall]
  /\ microQ = << >>
  /\ disposed = {}
  /\ now = 0
  /\ tick = NoTick
  /\ executingCtx = 0
  /\ running = << >>
  /\ created = 0
  /\ linked = {}

NextKeyed ==
  \/ \E s \in Subs, a \in Args : Execute(s, a)
  \/ \E s \in Subs, a \in Args : MarkExpired(s, a)
  \/ \E o \in 1..Len(ops) : Resolve(o)
  \/ \E o \in 1..Len(ops) : Reject(o)
  \/ RunMicro

SpecKeyed == InitKeyed /\ [][NextKeyed]_vars

\* ============================================================ claims
\* the unsettled operations of key k that were started through the cache
Unsettled(k) ==
  {o \in 1..Len(ops) :
     ops[o].cached /\ ops[o].key = k /\ ops[o].status = "pending"}

\* C1 as stated: in every reachable state and for every cache key at most one
\* operation started through the wrapped task with cacheTime > 0 is unsettled.
C1_AtMostOneUnsettled == \A k \in Keys : Cardinality(Unsettled(k)) <= 1

\* C1, amended: for every cache key at most one unsettled operation started
\* through the wrapped task is one that was never taken out of its entry; a
\* second unsettled operation of the key exists only after markExpired, the
\* validity check, another operation's catch handler or a disposal removed the
\* earlier promise from the entry while it was in flight.
C1_AtMostOneAttached ==
  \A k \in Keys :
    Cardinality({o \in Unsettled(k) : ~ops[o].dropped}) <= 1

\* C1 witness: a second call has arrived while the operation of its key was in
\* flight and awaits it, no second operation was started.
C1_Witness ==
  \E o \in 1..Len(ops) :
    /\ ops[o].cached /\ ops[o].status = "pending" /\ ~ops[o].dropped
    /\ Len(ops[o].waiters) = 2
    /\ Len(ops) = 1

\* C2: when the subscribers sharing a key with cacheTime > 0 call execute within
\* one synchronous tick on an entry that was absent or expired with no promise,
\* the underlying operation is invoked exactly once and all calls got the same
\* promise.
C2_DedupInTick ==
  tick.key # None => tick.invoked = 1 /\ Cardinality(tick.proms) = 1

\* C2 witness: two subscribers have called execute in the same tick.
C2_Witness == tick.key # None /\ tick.calls = 2

\* the entry holds the result of a success: it is populated and serves it
Populated(cache) ==
  /\ cache.lastUpdateTime # EXPIRED_FLAG
  /\ cache.promise # 0
  /\ ops[cache.promise].status = "ok"

\* C3 as stated: with cacheTime = T > 0 and an entry populated at t0 and not
\* invalidated since, a call of the key at t1 < t0 + T does not invoke the
\* underlying operation and returns the cached promise, and a call at
\* t1 >= t0 + T invokes it.
C3_ValidityWindow ==
  [][\A s \in Subs, a \in Args :
       (/\ Execute(s, a)
        /\ ~passThrough(s, a)
        /\ taskKey(s, a) \in DOMAIN cacheMap
        /\ Populated(cacheMap[taskKey(s, a)]))
       => LET cache == cacheMap[taskKey(s, a)]
              T == toValueCacheTime(options[s], a)
          IN IF now < cache.lastUpdateTime + T
             THEN ops' = ops /\ call'[s].op = cache.promise
             ELSE Len(ops') = Len(ops) + 1]_vars

\* the payload markExpired and revalidate act on
argsOrPayload(s, a) == IF a # 0 THEN a ELSE payload[s]

\* after markExpired of s: every execute of s whose arguments give the key of
\* the markExpired call invokes the underlying operation
InvokesAfterMark(s, a) ==
  \A b \in Args :
    RawKey(s, b) = RawKey(s, argsOrPayload(s, a))
      => taskStarts(cacheMap', s, b)

\* C4 as stated: for every subscriber, also one that has never executed, and
\* every state of the entry, markExpired followed by an execute of the same key
\* invokes the underlying operation afresh, and so does revalidate.
C4_AlwaysFresh ==
  [][\A s \in Subs, a \in Args :
       /\ MarkExpired(s, a) => InvokesAfterMark(s, a)
       /\ Revalidate(s, a) => Len(ops') = Len(ops) + 1]_vars

\* C4, amended: for every subscriber that has an execution record (it has
\* finished an execution or is executing), markExpired followed by an execute
\* of the same key invokes the underlying operation afresh, and so does
\* revalidate; for a subscriber that has never executed markExpired resolves no
\* key and expires nothing.
C4_FreshWithRecord ==
  [][\A s \in Subs, a \in Args :
       /\ (MarkExpired(s, a) /\ (isFinished[s] \/ isExecuting[s]))
            => InvokesAfterMark(s, a)
       /\ (Revalidate(s, a) /\ isFinished[s])
            => Len(ops') = Len(ops) + 1
       /\ (MarkExpired(s, a) /\ ~isFinished[s] /\ ~isExecuting[s])
            => cacheMap' = cacheMap]_vars

\* C4 witness: within the validity window of a populated entry (no time has
\* passed since the first operation started) the key has been expired and a
\* second operation runs for it.
C4_Witness ==
  /\ now = 0
  /\ Len(ops) = 2
  /\ ops[1].cached /\ ops[1].status = "ok" /\ ~ops[1].orphan
  /\ ops[2].cached /\ ops[2].key = ops[1].key /\ ops[2].status = "pending"
  /\ ops[1].key \in DOMAIN cacheMap
  /\ cacheMap[ops[1].key].promise = 2
  /\ \E s \in Subs : data[s] = 1

\* after the rejection of o: every call of the key of o invokes the operation
InvokesAfterReject(o) ==
  \A s \in Subs, a \in Args :
    taskKey(s, a) = ops[o].key => taskStarts(cacheMap', s, a)

\* C5 as stated: after an operation started through the wrapped task rejects,
\* the entry of its key has lastUpdateTime = EXPIRED and no promise, and the
\* next call of the key invokes the underlying operation again.
C5_RejectionExpires ==
  [][\A o \in 1..Len(ops) :
       (Reject(o) /\ ops[o].cached)
       => /\ ops[o].key \in DOMAIN cacheMap'
             => /\ cacheMap'[ops[o].key].lastUpdateTime = EXPIRED_FLAG
                /\ cacheMap'[ops[o].key].promise = 0
          /\ InvokesAfterReject(o)]_vars

\* C5, amended: after an operation started through the wrapped task rejects,
\* the entry it was started in, when a disposal has not removed it from the
\* store, has lastUpdateTime = EXPIRED and no promise and the next call of the
\* key invokes the underlying operation again; in every case no entry of the
\* store holds the rejected promise, so no later call returns it.
C5_RejectionExpiresOwnEntry ==
  [][\A o \in 1..Len(ops) :
       (Reject(o) /\ ops[o].cached)
       => /\ ~ops[o].orphan
             => /\ ops[o].key \in DOMAIN cacheMap'
                /\ cacheMap'[ops[o].key].lastUpdateTime = EXPIRED_FLAG
                /\ cacheMap'[ops[o].key].promise = 0
                /\ InvokesAfterReject(o)
          /\ \A k \in DOMAIN cacheMap' : cacheMap'[k].promise # o]_vars

\* C5 witness: the first operation of a key rejected, its entry stayed in the
\* store, and the next call of the key started the operation again.
C5_Witness ==
  /\ Len(ops) = 2
  /\ ops[1].cached /\ ops[1].status = "err" /\ ~ops[1].orphan /\ ~ops[1].dropped
  /\ ops[2].cached /\ ops[2].key = ops[1].key
  /\ ops[1].key \in DOMAIN cacheMap
  /\ cacheMap[ops[1].key].promise = 2

\* the continuation at the head of microQ is the success of the execution of
\* s that started the operation itself (through the cache when cached is TRUE)
SucceedsOwn(s, cached) ==
  /\ RunMicro
  /\ Head(microQ).sub = s
  /\ ops[Head(microQ).op].status = "ok"
  /\ ops[Head(microQ).op].cached = cached
  /\ call[s].own

\* B is registered with A on the entry of the key k and idle on that key
IdleSibling(A, B, k) ==
  /\ B # A
  /\ k \in DOMAIN cacheMap
  /\ A \in Range(cacheMap[k].contexts)
  /\ B \in Range(cacheMap[k].contexts)
  /\ isFinished[B] /\ ~isExecuting[B]
  /\ KeyOf(B, payload[B]) = k

C7_DisposalCollects ==
  /\ [](\A k \in DOMAIN cacheMap :
          /\ Range(cacheMap[k].contexts) # {}
          /\ Range(cacheMap[k].contexts) \cap disposed = {})
  /\ [][\A s \in Subs, a \in Args :
          (/\ Execute(s, a)
           /\ ~passThrough(s, a)
           /\ taskKey(s, a) \notin DOMAIN cacheMap)
          => cacheMap'[taskKey(s, a)] =
               [lastUpdateTime |-> EXPIRED_FLAG, promise |-> Len(ops) + 1,
                contexts |-> <<s>>]]_vars

\* C7 witness: both subscribers were registered on a populated entry, both are
\* disposed, and the store is empty.
C7_Witness ==
  /\ disposed = Subs
  /\ DOMAIN cacheMap = {}
  /\ \E o \in 1..Len(ops) :
       ops[o].cached /\ ops[o].orphan /\ ops[o].status = "ok"
  /\ \A s \in Subs : data[s] # 0

\* a step of the execution of s that went to rawTask directly: its start, the
\* settlement of its operation, its continuation
PassThroughStep(s) ==
  \/ \E a \in Args : Execute(s, a) /\ passThrough(s, a)
  \/ \E o \in 1..Len(ops) :
       /\ Resolve(o) \/ Reject(o)
       /\ ~ops[o].cached /\ ops[o].by = s
  \/ /\ RunMicro
     /\ Head(microQ).sub = s
     /\ ~ops[Head(microQ).op].cached

\* C8 as stated: an execute call for which no key resolves or whose cacheTime
\* is <= 0 has no caching effect: from its start through its success or failure
\* it leaves every cache entry and the data and rawData of every other
\* subscriber unchanged.
C8_PassThroughUntouched ==
  [][\A s \in Subs :
       PassThroughStep(s)
       => /\ cacheMap' = cacheMap
          /\ \A x \in Subs \ {s} :
               data'[x] = data[x] /\ rawData'[x] = rawData[x]]_vars

\* C9 as stated: a subscriber configured with a static key resolves to that key
\* for every argument list and every subscriber state, also before its first
\* execution.
C9_StaticKeyAlways ==
  \A s \in Subs :
    options[s].key = "static"
      => \A a \in Args : KeyOf(s, a) = StaticKey

\* C9, amended: a subscriber configured with a static key resolves to that key
\* for every argument list once it has an execution record (isFinished or
\* isExecuting), and to no key before its first execution.
C9_StaticKeyWithRecord ==
  \A s \in Subs :
    options[s].key = "static"
      => \A a \in Args :
           KeyOf(s, a) =
             IF isFinished[s] \/ isExecuting[s] THEN StaticKey ELSE None

\* C9 witness: next to a subscriber that has never executed, a subscriber with
\* a static key has finished an execution.
C9_Witness ==
  \E s \in Subs, x \in Subs :
    /\ options[s].key = "static" /\ isFinished[s] /\ ~isExecuting[s]
    /\ ~isFinished[x] /\ ~isExecuting[x]
    /\ data[s] # 0

\* C10 as stated: when A started the shared operation and B awaits the same
\* promise, cancelling the call of A does not fail the operation for B: no
\* execution continues with the outcome of an attempt that another
\* subscriber's cancellation aborted.
C10_CancelSparesSiblings ==
  \A i \in 1..Len(microQ) :
    ops[microQ[i].op].status = "aborted"
      => microQ[i].sub = ops[microQ[i].op].by

\* the continuation at the head of microQ is a success of the execution of s
\* on an operation that was started through the cache
SucceedsCached(s) ==
  /\ RunMicro
  /\ Head(microQ).sub = s
  /\ ops[Head(microQ).op].status = "ok"
  /\ ops[Head(microQ).op].cached

\* C11 as stated: every underlying invocation for a key that settles
\* successfully causes exactly one population of the entry (lastUpdateTime set
\* to the success time) together with the broadcast, whatever interleaved: the
\* continuation of the execution that started the operation, which runs first,
\* finds the entry of the key expired and populates it, and the continuations
\* of the other executions awaiting the promise change nothing.  Operations
\* whose entry a disposal removed are left aside.
C11_OncePerSuccess ==
  [][\A s \in Subs :
       (SucceedsCached(s) /\ ~ops[Head(microQ).op].orphan)
       => LET k == ops[Head(microQ).op].key
          IN IF call[s].own
             THEN /\ k \in DOMAIN cacheMap
                  /\ cacheMap[k].lastUpdateTime = EXPIRED_FLAG
                  /\ cacheMap'[k].lastUpdateTime = now
             ELSE cacheMap' = cacheMap]_vars

\* ============================================================ second design
\* createSWRPlugin(pluginOptions) of src/src/swr.ts, lines 293-400: the key is
\* resolved whatever the execution record, cacheTime is a number, and a
\* promise is returned only from an entry that is not expired.
Static2 == [key |-> "static", cacheTime |-> "static"]
ByArgs2 == [key |-> "fn", cacheTime |-> "static"]
NoCacheTime2 == [key |-> "static", cacheTime |-> "none"]

Configs2 ==
  { [A |-> Static2, B |-> ByArgs2],
    [A |-> Static2, B |-> NoCacheTime2],
    [A |-> ByArgs2, B |-> NoKey] }

\* getKey(options, payload) of the second design
getKey2(opt, a) == IF opt.key = "none" THEN None ELSE toValueKey(opt, a)

\* const { cacheTime = baseCacheTime } = options.swr || {}, baseCacheTime = 0
cacheTime2(opt) == IF opt.cacheTime = "static" THEN CacheTimeT ELSE 0

isValid(cache, cacheTime) ==
  /\ cacheTime > 0
  /\ cache.lastUpdateTime # EXPIRED_FLAG
  /\ now - cache.lastUpdateTime < cacheTime

\* the entry after lookup or creation, the validity check and registration
taskCache2(s, a) ==
  LET key == getKey2(options[s], a)
      c1 == IF key \notin DOMAIN cacheMap THEN initCache
            ELSE IF ~isValid(cacheMap[key], cacheTime2(options[s]))
                 THEN expireCache(cacheMap[key])
                 ELSE cacheMap[key]
  IN [c1 EXCEPT !.contexts = Append(filterContexts(c1, s), s)]

\* the promise the task returns without running rawTask, 0 if it runs rawTask
taskShared2(s, a) ==
  IF getKey2(options[s], a) = None THEN 0
  ELSE IF taskCache2(s, a).lastUpdateTime # EXPIRED_FLAG
       THEN taskCache2(s, a).promise
       ELSE 0

\* shell.execute(a) with the wrapped task of the second design
Execute2(s, a) ==
  LET key == getKey2(options[s], a)
      p == IF taskShared2(s, a) = 0 THEN Len(ops) + 1 ELSE taskShared2(s, a)
      os1 == IF key # None /\ key \in DOMAIN cacheMap
                /\ taskCache2(s, a).promise # cacheMap[key].promise
             THEN Drop(ops, cacheMap[key].promise)
             ELSE ops
  IN /\ Quiescent
     /\ s \notin disposed
     /\ ~isExecuting[s]
     /\ taskShared2(s, a) = 0 => Len(ops) < MaxOps
     /\ isExecuting' = [isExecuting EXCEPT ![s] = TRUE]
     /\ payload' = [payload EXCEPT ![s] = a]
     /\ cacheMap' =
          IF key = None THEN cacheMap
          ELSE put(cacheMap, key, [taskCache2(s, a) EXCEPT !.promise = p])
     /\ ops' =
          IF taskShared2(s, a) = 0
          THEN Append(os1, rawTask(s, key, key # None))
          ELSE IF os1[p].status = "pending"
               THEN [os1 EXCEPT ![p].waiters = Append(@, s)]
               ELSE os1
     /\ microQ' =
          IF taskShared2(s, a) # 0 /\ os1[p].status # "pending"
          THEN Append(microQ, [sub |-> s, op |-> p])
          ELSE microQ
     /\ call' = [call EXCEPT ![s] = [op |-> p, own |-> taskShared2(s, a) = 0]]
     /\ tick' = NoTick
     /\ UNCHANGED <<axiosVars, options, isFinished, data, rawData, disposed, now>>

\* shell.markExpired(...args) of the second design
MarkExpired2(s, a) ==
  LET key == getKey2(options[s], argsOrPayload(s, a))
  IN /\ Quiescent
     /\ s \notin disposed
     /\ IF key # None /\ key \in DOMAIN cacheMap
        THEN /\ cacheMap' = put(cacheMap, key, expireCache(cacheMap[key]))
             /\ ops' = Drop(ops, cacheMap[key].promise)
        ELSE UNCHANGED <<cacheMap, ops>>
     /\ tick' = NoTick
     /\ UNCHANGED <<axiosVars, options, isExecuting, isFinished, payload, data, rawData,
                    call, microQ, disposed, now>>

\* does the success hook of the second design populate the entry?
successPopulates2(s) ==
  /\ getKey2(options[s], payload[s]) # None
  /\ getKey2(options[s], payload[s]) \in DOMAIN cacheMap
  /\ cacheMap[getKey2(options[s], payload[s])].lastUpdateTime = EXPIRED_FLAG

\* the sibling subscribers whose data the hook of the second design writes
successReceivers2(s) ==
  IF successPopulates2(s)
  THEN {x \in Range(filterContexts(cacheMap[getKey2(options[s], payload[s])], s)) :
          /\ ~isExecuting[x]
          /\ getKey2(options[x], payload[x]) = getKey2(options[s], payload[s])}
  ELSE {}

\* the continuation of an execution with the success hook of the second design
RunMicro2 ==
  /\ microQ # <<>>
  /\ LET s == Head(microQ).sub
         o == Head(microQ).op
         key == getKey2(options[s], payload[s])
     IN /\ microQ' = Tail(microQ)
        /\ IF ops[o].status = "ok"
           THEN /\ data' = [x \in Subs |->
                             IF x = s \/ x \in successReceivers2(s)
                             THEN o ELSE data[x]]
                /\ rawData' = [x \in Subs |->
                             IF x = s \/ x \in successReceivers2(s)
                             THEN o ELSE rawData[x]]
                /\ cacheMap' =
                     IF successPopulates2(s)
                     THEN put(cacheMap, key,
                              [cacheMap[key] EXCEPT !.lastUpdateTime = now])
                     ELSE cacheMap
           ELSE UNCHANGED <<data, rawData, cacheMap>>
        /\ isExecuting' = [isExecuting EXCEPT ![s] = FALSE]
        /\ isFinished' = [isFinished EXCEPT ![s] = TRUE]
        /\ call' = [call EXCEPT ![s] = NoCall]
  /\ tick' = NoTick
  /\ UNCHANGED <<axiosVars, options, payload, ops, disposed, now>>

Init2 ==
  /\ options \in Configs2
  /\ cacheMap = << >>
  /\ isExecuting = [s \in Subs |-> FALSE]
  /\ isFinished = [s \in Subs |-> FALSE]
  /\ payload = [s \in Subs |-> 0]
  /\ data = [s \in Subs |-> 0]
  /\ rawData = [s \in Subs |-> 0]
  /\ ops = << >>
  /\ call = [s \in Subs |-> NoCall]
  /\ microQ = << >>
  /\ disposed = {}
  /\ now = 0
  /\ tick = NoTick
  /\ executingCtx = 0
  /\ running = << >>
  /\ created = 0
  /\ linked = {}

Next2 ==
  \/ \E s \in Subs, a \in Args : Execute2(s, a)
  \/ \E s \in Subs, a \in Args : MarkExpired2(s, a)
  \/ \E o \in 1..Len(ops) : Resolve(o)
  \/ \E o \in 1..Len(ops) : Reject(o)
  \/ RunMicro2
  \/ \E s \in Subs : Dispose(s)
  \/ Tick

Spec2 == Init2 /\ [][Next2]_vars

\* C12 as stated: in the second design a call with a resolved key that arrives
\* while the entry of the key holds an unsettled promise returns that promise
\* and does not invoke the underlying operation a second time.
C12_JoinsPending2 ==
  [][\A s \in Subs, a \in Args :
       (/\ Execute2(s, a)
        /\ getKey2(options[s], a) # None
        /\ getKey2(options[s], a) \in DOMAIN cacheMap
        /\ cacheMap[getKey2(options[s], a)].promise # 0
        /\ ops[cacheMap[getKey2(options[s], a)].promise].status = "pending")
       => /\ Len(ops') = Len(ops)
          /\ call'[s].op = cacheMap[getKey2(options[s], a)].promise]_vars

\* C13: markExpired of the first design changes at most lastUpdateTime (to
\* EXPIRED) and promise (to null) of the single entry of the resolved key: it
\* creates and removes no entry, changes no subscriber set, leaves the entries
\* of the other keys as they are, and leaves the whole store unchanged when no
\* key resolves or the key has no entry; no subscriber's data is written.
C13_MarkExpiredFrame ==
  [][\A s \in Subs, a \in Args :
       MarkExpired(s, a)
       => LET key == KeyOf(s, argsOrPayload(s, a))
          IN /\ DOMAIN cacheMap' = DOMAIN cacheMap
             /\ \A k \in DOMAIN cacheMap :
                  /\ cacheMap'[k].contexts = cacheMap[k].contexts
                  /\ k # key => cacheMap'[k] = cacheMap[k]
                  /\ k = key => /\ cacheMap'[k].lastUpdateTime = EXPIRED_FLAG
                                /\ cacheMap'[k].promise = 0
             /\ (key = None \/ key \notin DOMAIN cacheMap)
                  => cacheMap' = cacheMap
             /\ data' = data /\ rawData' = rawData]_vars

\* C13 witness: the entries of two keys were populated by two successful
\* operations, then one of them was expired by markExpired: it is still in the
\* store with its subscribers, and the other entry is still populated.
C13_Witness ==
  /\ microQ = <<>>
  /\ Len(ops) = 2
  /\ \A o \in 1..2 : ops[o].cached /\ ops[o].status = "ok" /\ ~ops[o].orphan
  /\ ops[1].key # ops[2].key
  /\ {ops[1].key, ops[2].key} \subseteq DOMAIN cacheMap
  /\ \E o \in 1..2 :
       /\ cacheMap[ops[o].key].lastUpdateTime = EXPIRED_FLAG
       /\ cacheMap[ops[o].key].promise = 0
       /\ cacheMap[ops[o].key].contexts # <<>>
       /\ Populated(cacheMap[ops[3 - o].key])

\* C14: in every reachable state of the first design the subscriber set of each
\* entry contains any given subscriber at most once, however many times the
\* subscriber has executed with the key of the entry.
C14_SubscriberOnce ==
  \A k \in DOMAIN cacheMap :
    \A i \in 1..Len(cacheMap[k].contexts), j \in 1..Len(cacheMap[k].contexts) :
      cacheMap[k].contexts[i] = cacheMap[k].contexts[j] => i = j

\* C14 witness: x started the only operation and registered first, y joined,
\* and x has executed with the key again: it is registered once, now last.
C14_Witness ==
  \E x \in Subs, y \in Subs :
    /\ x # y
    /\ Len(ops) = 1
    /\ ops[1].by = x /\ ops[1].cached /\ ~ops[1].orphan
    /\ ops[1].key \in DOMAIN cacheMap
    /\ cacheMap[ops[1].key].contexts = <<y, x>>

\* C15: the broadcast of a successful population in the first design writes
\* data and rawData of no subscriber that is executing at that moment, that
\* has no finished execution, or whose key re-resolved from its own current
\* arguments differs from the populated key: every other subscriber whose data
\* or rawData changes in the continuation of a success is idle and its current
\* key is the key the succeeding subscriber's hook resolved.
C15_BroadcastOnlyIdleSameKey ==
  [][(RunMicro /\ ops[Head(microQ).op].status = "ok")
       => \A x \in Subs \ {Head(microQ).sub} :
            (data'[x] # data[x] \/ rawData'[x] # rawData[x])
            => /\ isFinished[x] /\ ~isExecuting[x]
               /\ KeyOf(Head(microQ).sub, payload[Head(microQ).sub]) # None
               /\ KeyOf(x, payload[x]) =
                    KeyOf(Head(microQ).sub, payload[Head(microQ).sub])
               /\ x \in Range(cacheMap[KeyOf(x, payload[x])].contexts)]_vars

\* C15 witness, another key: x is registered on the entry of k1 and idle, its
\* last arguments resolve to k2; the operation of y on k1 has fulfilled and
\* the continuation of y that populates the expired entry of k1 is next.
C15_WitnessOtherKey ==
  \E x \in Subs, y \in Subs :
    /\ x # y
    /\ microQ # <<>>
    /\ Head(microQ).sub = y
    /\ ops[Head(microQ).op].status = "ok"
    /\ KeyOf(y, payload[y]) = "k1"
    /\ "k1" \in DOMAIN cacheMap
    /\ cacheMap["k1"].lastUpdateTime = EXPIRED_FLAG
    /\ x \in Range(cacheMap["k1"].contexts)
    /\ isFinished[x] /\ ~isExecuting[x]
    /\ KeyOf(x, payload[x]) = "k2"

\* C15 witness: the success of y populated the entry while the registered
\* sibling x was executing: x was skipped and still has no data.
C15_Witness ==
  \E k \in DOMAIN cacheMap, x \in Subs, y \in Subs :
    /\ x # y
    /\ cacheMap[k].contexts = <<y, x>>
    /\ cacheMap[k].lastUpdateTime # EXPIRED_FLAG
    /\ cacheMap[k].promise # 0
    /\ ops[cacheMap[k].promise].status = "pending"
    /\ isExecuting[x] /\ call[x].op = cacheMap[k].promise
    /\ data[x] = 0 /\ rawData[x] = 0
    /\ ~isExecuting[y] /\ data[y] # 0

\* ============================================================ throwing options
\* An argument list for which the user's key function and cacheTime function
\* throw.
BadArg == 3

keyThrows(opt, a) == opt.key = "fn" /\ a = BadArg
cacheTimeThrows(opt, a) == opt.cacheTime = "fn" /\ a = BadArg

\* the wrapped task of s throws while resolving key or cacheTime
taskThrows(s, a) ==
  keyThrows(options[s], a) \/ cacheTimeThrows(options[s], a)

\* shell.execute(BadArg): the engine records the payload, the task throws
\* before it looks at the store, and the execution ends as failed.
ExecuteThrow(s) ==
  /\ Quiescent
  /\ s \notin disposed
  /\ ~isExecuting[s]
  /\ taskThrows(s, BadArg)
  /\ payload' = [payload EXCEPT ![s] = BadArg]
  /\ isFinished' = [isFinished EXCEPT ![s] = TRUE]
  /\ tick' = NoTick
  /\ UNCHANGED <<axiosVars, options, cacheMap, isExecuting, data, rawData, ops, call,
                 microQ, disposed, now>>

\* the idle siblings the hook of s iterates over, in the order of contexts
hookSiblings(s) ==
  SelectSeq(filterContexts(cacheMap[successKey(s, payload[s])], s),
            LAMBDA x : isFinished[x] /\ ~isExecuting[x])

\* the position of the first sibling whose key function throws, 0 if none
hookThrowAt(s) ==
  IF successPopulates(s, payload[s])
     /\ \E i \in 1..Len(hookSiblings(s)) :
          keyThrows(options[hookSiblings(s)[i]], payload[hookSiblings(s)[i]])
  THEN CHOOSE i \in 1..Len(hookSiblings(s)) :
         /\ keyThrows(options[hookSiblings(s)[i]], payload[hookSiblings(s)[i]])
         /\ \A j \in 1..(i - 1) :
              ~keyThrows(options[hookSiblings(s)[j]], payload[hookSiblings(s)[j]])
  ELSE 0

\* the siblings written before the hook threw
hookWrittenBeforeThrow(s) ==
  {hookSiblings(s)[j] : j \in 1..(hookThrowAt(s) - 1)}
    \cap successReceivers(s, payload[s])

\* the success hook of the head of microQ throws while re-resolving the key
\* of a sibling
HookThrows ==
  /\ microQ # <<>>
  /\ ops[Head(microQ).op].status = "ok"
  /\ hookThrowAt(Head(microQ).sub) # 0

\* The continuation of an execution whose success hook throws: lastUpdateTime
\* was assigned before the siblings were visited, the siblings before the
\* throwing one were written, and the error ends the execution; whether the
\* engine keeps the result of the execution is its own matter.
RunMicroThrow ==
  /\ HookThrows
  /\ LET s == Head(microQ).sub
         o == Head(microQ).op
     IN /\ microQ' = Tail(microQ)
        /\ cacheMap' = successMap(s, payload[s])
        /\ \E kept \in BOOLEAN :
             /\ data' = [x \in Subs |->
                           IF (x = s /\ kept) \/ x \in hookWrittenBeforeThrow(s)
                           THEN o ELSE data[x]]
             /\ rawData' = [x \in Subs |->
                           IF (x = s /\ kept) \/ x \in hookWrittenBeforeThrow(s)
                           THEN o ELSE rawData[x]]
        /\ isExecuting' = [isExecuting EXCEPT ![s] = FALSE]
        /\ isFinished' = [isFinished EXCEPT ![s] = TRUE]
        /\ call' = [call EXCEPT ![s] = NoCall]
  /\ tick' = NoTick
  /\ UNCHANGED <<axiosVars, options, payload, ops, disposed, now>>

\* the continuation of an execution whose hook does not throw
RunMicroNoThrow == ~HookThrows /\ RunMicro

NextThrow ==
  \/ \E s \in Subs, a \in Args : Execute(s, a)
  \/ \E s \in Subs : ExecuteThrow(s)
  \/ \E o \in 1..Len(ops) : Resolve(o)
  \/ \E o \in 1..Len(ops) : Reject(o)
  \/ RunMicroNoThrow
  \/ RunMicroThrow

SpecThrow == Init /\ [][NextThrow]_vars

\* C16 as stated: when a key function or cacheTime function throws while a
\* call is processed, in the wrapped task or while the success hook re-resolves
\* the keys of the sibling subscribers, the cache state is unchanged: no entry
\* was created, no lastUpdateTime, promise or subscriber set was changed and no
\* sibling's data was written.
C16_ThrowLeavesCache ==
  [][/\ \A s \in Subs :
          ExecuteThrow(s)
          => cacheMap' = cacheMap /\ data' = data /\ rawData' = rawData
     /\ RunMicroThrow
          => /\ cacheMap' = cacheMap
             /\ \A x \in Subs \ {Head(microQ).sub} :
                  data'[x] = data[x] /\ rawData'[x] = rawData[x]]_vars

\* ============================================================ axios plugin
\* createAxiosPlugin and the patched Axios.prototype.request of
\* src/src/axios.ts.  An execution context is a number 1..MaxCtx; running is
\* the stack of wrapped tasks whose rawTask is executing synchronously.
swrVars == <<options, cacheMap, isExecuting, isFinished, payload, data,
             rawData, ops, call, microQ, disposed, now, tick>>

\* the wrapped task whose rawTask is running, 0 outside every task
currentTask == IF running = << >> THEN 0 ELSE running[Len(running)]

\* pluginCtx.task(ctx) is entered for a new context, from the event loop or
\* from inside a running task: executingCtx = ctx, then rawTask(ctx) runs
TaskEnter ==
  /\ created < MaxCtx
  /\ created' = created + 1
  /\ executingCtx' = created + 1
  /\ running' = Append(running, created + 1)
  /\ UNCHANGED <<linked, swrVars>>

\* Axios.prototype.request is called, inside a task or outside: it takes the
\* ambient context when there is one and clears it
Request ==
  /\ linked' = linked \cup {[by |-> currentTask, ctx |-> executingCtx]}
  /\ executingCtx' = 0
  /\ UNCHANGED <<running, created, swrVars>>

\* rawTask(ctx) returns: executingCtx = null, and the results are returned
TaskReturn ==
  /\ running # << >>
  /\ running' = SubSeq(running, 1, Len(running) - 1)
  /\ executingCtx' = 0
  /\ UNCHANGED <<created, linked, swrVars>>

\* rawTask(ctx) throws synchronously: the assignment after it is not reached
TaskThrow ==
  /\ running # << >>
  /\ running' = SubSeq(running, 1, Len(running) - 1)
  /\ UNCHANGED <<executingCtx, created, linked, swrVars>>

NextAxios ==
  \/ TaskEnter
  \/ Request
  \/ TaskReturn
  \/ TaskThrow

SpecAxios == Init /\ [][NextAxios]_vars

\* C17 as stated: whenever no wrapped task is executing synchronously the
\* ambient executingCtx is null, also after a task that threw synchronously or
\* that invoked another wrapped task, and every request that was linked to a
\* context was issued inside that context's own task invocation.
C17_LinkedOnlyInOwnTask ==
  /\ running = << >> => executingCtx = 0
  /\ \A l \in linked : l.ctx # 0 => l.by = l.ctx

\* C18 as stated: a rejection invalidates an entry only if the rejecting
\* operation is still the promise the entry holds: when the entry of its key
\* holds another promise (installed after markExpired) or none, the rejection
\* of the older operation leaves the store as it is, so it neither clears the
\* newer pending promise nor resets a lastUpdateTime the newer operation's
\* success populated.
C18_LateRejectionSpares ==
  [][\A o \in 1..Len(ops) :
       (/\ Reject(o)
        /\ ops[o].cached
        /\ ops[o].key \in DOMAIN cacheMap
        /\ cacheMap[ops[o].key].promise # o)
       => cacheMap' = cacheMap]_vars

\* C19 as stated: in every reachable state an entry whose lastUpdateTime is not
\* EXPIRED holds a promise, and that promise has settled successfully.
C19_PopulatedHoldsResult ==
  \A k \in DOMAIN cacheMap :
    cacheMap[k].lastUpdateTime # EXPIRED_FLAG => Populated(cacheMap[k])

\* C20 as stated: the value a broadcast writes to the sibling subscribers and
\* the timestamp stored in lastUpdateTime always stem from the operation whose
\* promise the entry holds: whenever the continuation of a success populates
\* an entry or writes data of another subscriber, the operation that
\* succeeded is the promise of the entry of the succeeding subscriber's key.
C20_PopulatedByCurrent ==
  [][(/\ RunMicro
      /\ ops[Head(microQ).op].status = "ok"
      /\ \/ cacheMap' # cacheMap
         \/ \E x \in Subs \ {Head(microQ).sub} :
              data'[x] # data[x] \/ rawData'[x] # rawData[x])
       => /\ KeyOf(Head(microQ).sub, payload[Head(microQ).sub]) \in DOMAIN cacheMap
          /\ cacheMap[KeyOf(Head(microQ).sub, payload[Head(microQ).sub])].promise
               = Head(microQ).op]_vars

====
